---- MODULE Spec2Model ----
(***************************************************************************)
(* A model of tools/patch_rustdesk_android.py: the rule list of            *)
(* build_rules applied by replace_in_file, the directory migration of      *)
(* move_kotlin_dir and the post-condition checks of main.                  *)
(*                                                                         *)
(* A text (a file's content, a configuration value, a path component) is   *)
(* a sequence of one-character strings, so that the regular expressions    *)
(* of the rules are computed character by character as re does.            *)
(***************************************************************************)
EXTENDS Integers, Sequences, FiniteSets, TLC

(***************************************************************************)
(* Characters.                                                             *)
(***************************************************************************)
LowerCase ==
    <<"a","b","c","d","e","f","g","h","i","j","k","l","m","n","o","p","q","r","s","t","u","v","w","x","y","z">>
UpperCase ==
    <<"A","B","C","D","E","F","G","H","I","J","K","L","M","N","O","P","Q","R","S","T","U","V","W","X","Y","Z">>
DigitChars ==
    <<"0","1","2","3","4","5","6","7","8","9">>
\* chr(64) .. chr(127), for the octal escapes \100 .. \177 of a replacement template
ChrFrom64 ==
    <<"@","A","B","C","D","E","F","G","H","I","J","K","L","M","N","O","P","Q","R","S","T","U","V","W","X","Y","Z","[","\\","]","^","_","BACKTICK","a","b","c","d","e","f","g","h","i","j","k","l","m","n","o","p","q","r","s","t","u","v","w","x","y","z","{","|","}","~","DEL">>

Range(s) == {s[k] : k \in 1..Len(s)}
Min(S) == CHOOSE x \in S : \A y \in S : x <= y

\* \w of re (str patterns): letters, digits and the underscore
WordChars == Range(LowerCase) \cup Range(UpperCase) \cup Range(DigitChars) \cup {"_"}
\* \s of re
Whitespace == {" ", "\t", "\n", "\r"}
Digits == Range(DigitChars)
OctDigits == {"0","1","2","3","4","5","6","7"}
DigitValue(c) == CHOOSE d \in 0..9 : DigitChars[d + 1] = c

(***************************************************************************)
(* The string literals of the source.                                      *)
(***************************************************************************)
DEF_OLD_PACKAGE ==
    <<"c","o","m",".","c","a","r","r","i","e","z",".","f","l","u","t","t","e","r","_","h","b","b">>
DEF_NEW_PACKAGE ==
    <<"c","o","m",".","c","e","l","o","n","i","s",".","w","o","r","k">>
DEF_OLD_APP_NAME ==
    <<"R","u","s","t","D","e","s","k">>
DEF_NEW_APP_NAME ==
    <<"T","o","d","d","D","e","s","k">>
DEF_OLD_SCHEME ==
    <<"r","u","s","t","d","e","s","k">>
DEF_NEW_SCHEME ==
    <<"t","o","d","d","d","e","s","k">>
DEF_OLD_SERVICE ==
    <<"I","n","p","u","t","S","e","r","v","i","c","e">>
DEF_NEW_SERVICE ==
    <<"T","o","d","d","S","e","r","v","i","c","e">>
DEF_ACCESSIBILITY_DESC ==
    <<"M","a","d","e"," ","b","y"," ","T","o","d","d">>
STRING_OPEN ==
    <<"<","s","t","r","i","n","g">>
NAME_ACCESSIBILITY ==
    <<"n","a","m","e","=","\"","a","c","c","e","s","s","i","b","i","l","i","t","y","_","s","e","r","v","i","c","e","_","d","e","s","c","r","i","p","t","i","o","n","\"",">">>
NAME_APP_NAME ==
    <<"n","a","m","e","=","\"","a","p","p","_","n","a","m","e","\"",">">>
STRING_CLOSE ==
    <<"<","/","s","t","r","i","n","g",">">>
ANDROID_NAME_DOT ==
    <<"a","n","d","r","o","i","d",":","n","a","m","e","=","\"",".">>
QUOTE ==
    <<"\"">>
RUSTDESK_INPUT ==
    <<"R","u","s","t","D","e","s","k"," ","I","n","p","u","t">>
RUSTDESK_SERVICE ==
    <<"R","u","s","t","D","e","s","k"," ","S","e","r","v","i","c","e">>
RUSTDESK_SERVICE_CHANNEL ==
    <<"R","u","s","t","D","e","s","k"," ","S","e","r","v","i","c","e"," ","C","h","a","n","n","e","l">>
SHOW_RUSTDESK ==
    <<"S","h","o","w"," ","R","u","s","t","D","e","s","k">>
SP_INPUT ==
    <<" ","I","n","p","u","t">>
SP_SERVICE ==
    <<" ","S","e","r","v","i","c","e">>
SP_SERVICE_CHANNEL ==
    <<" ","S","e","r","v","i","c","e"," ","C","h","a","n","n","e","l">>
SHOW_SP ==
    <<"S","h","o","w"," ">>
Q_INPUT ==
    <<"\"","i","n","p","u","t">>
SERVICE_Q ==
    <<"s","e","r","v","i","c","e","\"">>
Q_TODD_SERVICE_Q ==
    <<"\"","T","o","d","d"," ","s","e","r","v","i","c","e","\"">>
ID_SHOW_RUSTDESK ==
    <<"i","d","S","h","o","w","R","u","s","t","D","e","s","k">>
ID_SHOW_TODDDESK ==
    <<"i","d","S","h","o","w","T","o","d","d","D","e","s","k">>
ANDROID_SCHEME_Q ==
    <<"a","n","d","r","o","i","d",":","s","c","h","e","m","e","=","\"">>
COLON_SLASH_SLASH ==
    <<":","/","/">>
LOAD_LIBRARY_OPEN ==
    <<"S","y","s","t","e","m",".","l","o","a","d","L","i","b","r","a","r","y","(","\"">>
QUOTE_PAREN ==
    <<"\"",")">>
RUSTDESK ==
    <<"r","u","s","t","d","e","s","k">>
TODDDESK ==
    <<"t","o","d","d","d","e","s","k">>
LOAD_LIBRARY_RUSTDESK ==
    <<"S","y","s","t","e","m",".","l","o","a","d","L","i","b","r","a","r","y","(","\"","r","u","s","t","d","e","s","k","\"",")">>
LIB ==
    <<"l","i","b">>
DOT_SO ==
    <<".","s","o">>
LIBRUSTDESK_SO ==
    <<"l","i","b","r","u","s","t","d","e","s","k",".","s","o">>
LIBTODDDESK_SO ==
    <<"l","i","b","t","o","d","d","d","e","s","k",".","s","o">>
APPLICATION_ID_Q ==
    <<"a","p","p","l","i","c","a","t","i","o","n","I","d"," ","\"">>
PACKAGE_Q ==
    <<"p","a","c","k","a","g","e","=","\"">>
EXT_KT ==
    <<".","k","t">>
EXT_JAVA ==
    <<".","j","a","v","a">>
EXT_XML ==
    <<".","x","m","l">>
EXT_GRADLE ==
    <<".","g","r","a","d","l","e">>
EXT_PROPERTIES ==
    <<".","p","r","o","p","e","r","t","i","e","s">>
EXT_TXT ==
    <<".","t","x","t">>
EXT_MD ==
    <<".","m","d">>
EXT_DART ==
    <<".","d","a","r","t">>
N_FLUTTER ==
    <<"f","l","u","t","t","e","r">>
N_ANDROID ==
    <<"a","n","d","r","o","i","d">>
N_APP ==
    <<"a","p","p">>
N_SRC ==
    <<"s","r","c">>
N_MAIN ==
    <<"m","a","i","n">>
N_KOTLIN ==
    <<"k","o","t","l","i","n">>
N_BUILD_GRADLE ==
    <<"b","u","i","l","d",".","g","r","a","d","l","e">>
N_ANDROID_MANIFEST_XML ==
    <<"A","n","d","r","o","i","d","M","a","n","i","f","e","s","t",".","x","m","l">>
N_REPORT ==
    <<"t","o","d","d","_","p","a","t","c","h","_","r","e","p","o","r","t",".","m","d">>
NL ==
    <<"\n">>
N_MAIN_ACTIVITY_KT ==
    <<"M","a","i","n","A","c","t","i","v","i","t","y",".","k","t">>
N_STRINGS_XML ==
    <<"s","t","r","i","n","g","s",".","x","m","l">>
N_GOOGLE_SERVICES_JSON ==
    <<"g","o","o","g","l","e","-","s","e","r","v","i","c","e","s",".","j","s","o","n">>
N_F_KT ==
    <<"f",".","k","t">>
N_G_KT ==
    <<"g",".","k","t">>
N_S ==
    <<"s">>
PKG_COM_A ==
    <<"c","o","m",".","a">>
PKG_ORG_B ==
    <<"o","r","g",".","b">>
PKG_COM_A_B ==
    <<"c","o","m",".","a",".","b">>
PKG_OTHER ==
    <<"c","o","m",".","e","x","a","m","p","l","e",".","a","p","p">>
KT_PACKAGE ==
    <<"p","a","c","k","a","g","e"," ">>
SP ==
    <<" ">>
T_IMPL ==
    <<"I","m","p","l">>
T_MY ==
    <<"M","y">>
T_2 ==
    <<"2">>
T_UNDERSCORE_X ==
    <<"_","x">>
T_X ==
    <<"x">>
APP_NAME_1DESK ==
    <<"1","D","e","s","k">>
DESC_24_7 ==
    <<"2","4","/","7">>

(***************************************************************************)
(* The bounds of the model.                                                *)
(***************************************************************************)
\* the most fragments an input text is made of
MaxFrags == 2
\* the most components of a path (the file system's limit on a name's length)
MaxDepth == 10

(***************************************************************************)
(* re: matching and substitution.                                          *)
(***************************************************************************)
\* the literal lit stands in text at index i
LitAt(text, lit, i) ==
    /\ i >= 1
    /\ i + Len(lit) - 1 <= Len(text)
    /\ \A k \in 1..Len(lit) : text[i + k - 1] = lit[k]

\* "needle in s" of must_contain, must_not_contain and scan_any
Contains(text, needle) ==
    \E i \in 1..(Len(text) - Len(needle) + 1) : LitAt(text, needle, i)

\* the first index >= from at which lit stands in text, 0 when there is none
IndexFrom(text, lit, from) ==
    LET S == {j \in from..(Len(text) - Len(lit) + 1) : LitAt(text, lit, j)}
    IN  IF S = {} THEN 0 ELSE Min(S)

\* \b at the position between text[p-1] and text[p]
WordBoundary(text, p) ==
    LET before == p - 1 >= 1 /\ p - 1 <= Len(text) /\ text[p - 1] \in WordChars
        after == p >= 1 /\ p <= Len(text) /\ text[p] \in WordChars
    IN  before # after

\* the index after the longest run of \s that starts at index a
SkipSpace(text, a) ==
    Min({j \in a..Len(text) : text[j] \notin Whitespace} \cup {Len(text) + 1})

\* The compiled patterns of build_rules, by shape:
\*   lit    re.escape(pat)
\*   word   \b re.escape(pat) \b
\*   ws     re.escape(pre) \s+ re.escape(post)
\*   elem   (<string \s+ name) .*? (</string>)   [re.DOTALL, two groups]
\*   alt    re.escape(pre) (?: alts[1] | alts[2] | ... ) re.escape(post)
PatLit(pat) == [kind |-> "lit", pat |-> pat]
PatWord(pat) == [kind |-> "word", pat |-> pat]
PatWs(pre, post) == [kind |-> "ws", pre |-> pre, post |-> post]
PatElem(name) == [kind |-> "elem", name |-> name]
PatAlt(pre, alts, post) == [kind |-> "alt", pre |-> pre, alts |-> alts, post |-> post]

\* pattern.groups
Groups(pat) == IF pat.kind = "elem" THEN 2 ELSE 0

\* the index after (<string\s+name="...">) matched at index i, 0 when it does not match
TagEnd(text, name, i) ==
    LET a == i + Len(STRING_OPEN)
        b == SkipSpace(text, a)
    IN  IF LitAt(text, STRING_OPEN, i) /\ b > a /\ LitAt(text, name, b)
        THEN b + Len(name)
        ELSE 0

\* pattern.match(text, i): the index after the match that starts at index i, 0 when
\* the pattern does not match there
MatchEnd(pat, text, i) ==
    CASE pat.kind = "lit" ->
            IF LitAt(text, pat.pat, i) THEN i + Len(pat.pat) ELSE 0
      [] pat.kind = "word" ->
            IF /\ LitAt(text, pat.pat, i)
               /\ WordBoundary(text, i)
               /\ WordBoundary(text, i + Len(pat.pat))
            THEN i + Len(pat.pat)
            ELSE 0
      [] pat.kind = "ws" ->
            LET a == i + Len(pat.pre)
                b == SkipSpace(text, a)
            IN  IF LitAt(text, pat.pre, i) /\ b > a /\ LitAt(text, pat.post, b)
                THEN b + Len(pat.post)
                ELSE 0
      [] pat.kind = "elem" ->
            LET t == TagEnd(text, pat.name, i)
                c == IF t = 0 THEN 0 ELSE IndexFrom(text, STRING_CLOSE, t)
            IN  IF c = 0 THEN 0 ELSE c + Len(STRING_CLOSE)
      [] pat.kind = "alt" ->
            LET a == i + Len(pat.pre)
                ok == {k \in 1..Len(pat.alts) :
                          /\ LitAt(text, pat.alts[k], a)
                          /\ LitAt(text, pat.post, a + Len(pat.alts[k]))}
            IN  IF LitAt(text, pat.pre, i) /\ ok # {}
                THEN a + Len(pat.alts[Min(ok)]) + Len(pat.post)
                ELSE 0

\* match.group(g) of the match of pat at index i
Group(pat, text, i, g) ==
    IF g = 1
    THEN SubSeq(text, i, TagEnd(text, pat.name, i) - 1)
    ELSE STRING_CLOSE

\* the parse by re of a replacement template: a sequence of items, each a literal text
\* [lit |-> t] or a group reference [group |-> g]; RE_ERROR when re raises re.error.
\* A backslash followed by digits is a group reference of one or two digits, or an
\* octal escape when three octal digits follow each other.  The only backslashes
\* of the templates are those of \1 and \2 in the element rules (the values of the
\* configurations modelled hold none), so the digits after a backslash start with
\* 1 or 2 and an octal escape lies in \100 .. \177.
RE_ERROR == <<"re.error">>
BadTemplate == [ok |-> FALSE, items |-> <<>>]

RECURSIVE ParseTemplate(_, _, _)
ParseTemplate(repl, groups, i) ==
    IF i > Len(repl) THEN [ok |-> TRUE, items |-> <<>>]
    ELSE IF repl[i] # "\\" THEN
        LET rest == ParseTemplate(repl, groups, i + 1)
        IN  [ok |-> rest.ok, items |-> <<[lit |-> <<repl[i]>>]>> \o rest.items]
    ELSE IF i + 1 > Len(repl) \/ repl[i + 1] \notin Digits \/ repl[i + 1] = "0" THEN
        BadTemplate
    ELSE
        LET c == repl[i + 1]
            two == i + 2 <= Len(repl) /\ repl[i + 2] \in Digits
            octal == /\ two
                     /\ c \in OctDigits
                     /\ repl[i + 2] \in OctDigits
                     /\ i + 3 <= Len(repl)
                     /\ repl[i + 3] \in OctDigits
            code == 64 * DigitValue(c) + 8 * DigitValue(repl[i + 2])
                       + DigitValue(repl[i + 3])
            g == IF two THEN 10 * DigitValue(c) + DigitValue(repl[i + 2])
                 ELSE DigitValue(c)
            next == IF octal THEN i + 4 ELSE IF two THEN i + 3 ELSE i + 2
            rest == ParseTemplate(repl, groups, next)
        IN  IF octal /\ (code < 64 \/ code > 127) THEN BadTemplate
            ELSE IF ~octal /\ g > groups THEN BadTemplate
            ELSE IF octal
            THEN [ok |-> rest.ok, items |-> <<[lit |-> <<ChrFrom64[code - 63]>>]>> \o rest.items]
            ELSE [ok |-> rest.ok, items |-> <<[group |-> g]>> \o rest.items]

\* match.expand(template)
RECURSIVE Expand(_, _, _, _, _)
Expand(tpl, k, pat, text, i) ==
    IF k > Len(tpl) THEN <<>>
    ELSE (IF "lit" \in DOMAIN tpl[k] THEN tpl[k].lit
          ELSE Group(pat, text, i, tpl[k].group))
         \o Expand(tpl, k + 1, pat, text, i)

\* the substitution of every non-overlapping match, leftmost first, from index i on
RECURSIVE SubFrom(_, _, _, _)
SubFrom(pat, tpl, text, i) ==
    LET starts == {j \in i..Len(text) : MatchEnd(pat, text, j) > 0}
    IN  IF starts = {} THEN SubSeq(text, i, Len(text))
        ELSE LET j == Min(starts)
             IN  SubSeq(text, i, j - 1) \o Expand(tpl, 1, pat, text, j)
                    \o SubFrom(pat, tpl, text, MatchEnd(pat, text, j))

\* pattern.sub(repl, text); RE_ERROR when the call raises
PatternSub(pat, repl, text) ==
    LET tpl == ParseTemplate(repl, Groups(pat), 1)
    IN  IF tpl.ok THEN SubFrom(pat, tpl.items, text, 1) ELSE RE_ERROR

(***************************************************************************)
(* PatchConfig and build_rules.                                            *)
(***************************************************************************)
\* the defaults of main's argument parser
DefaultConfig ==
    [old_package |-> DEF_OLD_PACKAGE, new_package |-> DEF_NEW_PACKAGE,
     old_app_name |-> DEF_OLD_APP_NAME, new_app_name |-> DEF_NEW_APP_NAME,
     old_scheme |-> DEF_OLD_SCHEME, new_scheme |-> DEF_NEW_SCHEME,
     old_service |-> DEF_OLD_SERVICE, new_service |-> DEF_NEW_SERVICE,
     accessibility_desc |-> DEF_ACCESSIBILITY_DESC]

\* mapping without the entry of the package
mapping_app_name_only(cfg) == << <<cfg.old_app_name, cfg.new_app_name>> >>

\* PatchConfig.mapping, in the dict's insertion order; a dict holds one entry per
\* key, the first insertion's place with the last insertion's value
mapping(cfg) ==
    IF cfg.old_package = cfg.old_app_name
    THEN << <<cfg.old_package, cfg.new_app_name>> >>
    ELSE << <<cfg.old_package, cfg.new_package>>,
            <<cfg.old_app_name, cfg.new_app_name>> >>

\* the word without its word boundaries
safe_word_replace_unbounded(word) == PatLit(word)
safe_word_replace(word) == PatWord(word)

\* 1) the global rules of the package and the app name
MappingRules(cfg) ==
    [k \in 1..Len(mapping(cfg)) |-> <<PatLit(mapping(cfg)[k][1]), mapping(cfg)[k][2]>>]

\* 2) the forced rewrite of the two <string> elements
ElementRules(cfg) ==
    << <<PatElem(NAME_ACCESSIBILITY), <<"\\", "1">> \o cfg.accessibility_desc \o <<"\\", "2">> >>,
       <<PatElem(NAME_APP_NAME), <<"\\", "1">> \o cfg.new_app_name \o <<"\\", "2">> >> >>

\* 3) the manifest's service attribute and 4) the service class name
ServiceRules(cfg) ==
    << <<PatLit(ANDROID_NAME_DOT \o cfg.old_service \o QUOTE),
         ANDROID_NAME_DOT \o cfg.new_service \o QUOTE>>,
       <<safe_word_replace(cfg.old_service), cfg.new_service>> >>

\* 5) the fixed strings, 6) the log tag and 7) idShowRustDesk
fixed_strings(cfg) ==
    << <<RUSTDESK_INPUT, cfg.new_app_name \o SP_INPUT>>,
       <<RUSTDESK_SERVICE, cfg.new_app_name \o SP_SERVICE>>,
       <<RUSTDESK_SERVICE_CHANNEL, cfg.new_app_name \o SP_SERVICE_CHANNEL>>,
       <<SHOW_RUSTDESK, SHOW_SP \o cfg.new_app_name>> >>

FixedRules(cfg) ==
    [k \in 1..Len(fixed_strings(cfg)) |->
        <<PatLit(fixed_strings(cfg)[k][1]), fixed_strings(cfg)[k][2]>>]
    \o << <<PatWs(Q_INPUT, SERVICE_Q), Q_TODD_SERVICE_Q>>,
          <<safe_word_replace(ID_SHOW_RUSTDESK), ID_SHOW_TODDDESK>> >>

\* the scheme replaced wherever it stands
SchemeRules_unscoped(cfg) ==
    << <<PatLit(ANDROID_SCHEME_Q \o cfg.old_scheme \o QUOTE),
         ANDROID_SCHEME_Q \o cfg.new_scheme \o QUOTE>>,
       <<PatLit(cfg.old_scheme), cfg.new_scheme>> >>

\* 8) the scheme attribute and 9) the URI prefix
SchemeRules(cfg) ==
    << <<PatLit(ANDROID_SCHEME_Q \o cfg.old_scheme \o QUOTE),
         ANDROID_SCHEME_Q \o cfg.new_scheme \o QUOTE>>,
       <<PatLit(cfg.old_scheme \o COLON_SLASH_SLASH),
         cfg.new_scheme \o COLON_SLASH_SLASH>> >>

\* the load call renamed to the new scheme instead of restored
NativeRules_renaming(cfg) ==
    << <<PatAlt(LOAD_LIBRARY_OPEN,
                <<cfg.old_scheme, cfg.new_scheme, RUSTDESK, TODDDESK>>,
                QUOTE_PAREN),
         LOAD_LIBRARY_OPEN \o cfg.new_scheme \o QUOTE_PAREN>>,
       <<PatLit(LIB \o cfg.new_scheme \o DOT_SO), LIBRUSTDESK_SO>>,
       <<PatLit(LIBTODDDESK_SO), LIBRUSTDESK_SO>> >>

\* 10), 11) the restoration of the native library's load call and file name
NativeRules(cfg) ==
    << <<PatAlt(LOAD_LIBRARY_OPEN,
                <<cfg.old_scheme, cfg.new_scheme, RUSTDESK, TODDDESK>>,
                QUOTE_PAREN),
         LOAD_LIBRARY_RUSTDESK>>,
       <<PatLit(LIB \o cfg.new_scheme \o DOT_SO), LIBRUSTDESK_SO>>,
       <<PatLit(LIBTODDDESK_SO), LIBRUSTDESK_SO>> >>

build_rules(cfg) ==
    MappingRules(cfg) \o ElementRules(cfg) \o ServiceRules(cfg) \o FixedRules(cfg)
        \o SchemeRules(cfg) \o NativeRules(cfg)

\* the loop of replace_in_file: dst after the rules k.. have been applied in order;
\* RE_ERROR when a sub raises
RECURSIVE ApplyRules(_, _, _)
ApplyRules(rules, k, dst) ==
    IF k > Len(rules) \/ dst = RE_ERROR THEN dst
    ELSE ApplyRules(rules, k + 1, PatternSub(rules[k][1], rules[k][2], dst))

(***************************************************************************)
(* Paths and files.  A path is the sequence of its components below the    *)
(* repository root, each component a text.                                 *)
(***************************************************************************)
TEXT_EXTS ==
    {EXT_KT, EXT_JAVA, EXT_XML, EXT_GRADLE, EXT_PROPERTIES, EXT_TXT, EXT_MD, EXT_DART}

ANDROID_ROOT == <<N_FLUTTER, N_ANDROID>>
GRADLE == <<N_FLUTTER, N_ANDROID, N_APP, N_BUILD_GRADLE>>
MANIFEST == <<N_FLUTTER, N_ANDROID, N_APP, N_SRC, N_MAIN, N_ANDROID_MANIFEST_XML>>
KOTLIN_ROOT == <<N_FLUTTER, N_ANDROID, N_APP, N_SRC, N_MAIN, N_KOTLIN>>

IsPrefix(p, q) == Len(p) <= Len(q) /\ SubSeq(q, 1, Len(p)) = p
Under(root, p) == Len(root) < Len(p) /\ IsPrefix(root, p)
Parent(p) == SubSeq(p, 1, Len(p) - 1)
Name(p) == p[Len(p)]
\* a path and all its ancestors
Ancestors(p) == {SubSeq(p, 1, n) : n \in 1..Len(p)}

\* str.lower, on the letters of ASCII
Lower(s) ==
    [k \in 1..Len(s) |->
        IF \E j \in 1..26 : UpperCase[j] = s[k]
        THEN LowerCase[CHOOSE j \in 1..26 : UpperCase[j] = s[k]]
        ELSE s[k]]

\* PurePath.suffix: the name from its last dot on, unless the dot starts or ends it
Suffix(name) ==
    LET dots == {i \in 1..Len(name) : name[i] = "."}
        i == CHOOSE d \in dots : \A e \in dots : e <= d
    IN  IF dots # {} /\ 1 < i /\ i < Len(name) THEN SubSeq(name, i, Len(name)) ELSE <<>>

\* str.split(".")
RECURSIVE Split(_)
Split(s) ==
    LET dots == {i \in 1..Len(s) : s[i] = "."}
    IN  IF dots = {} THEN <<s>>
        ELSE <<SubSeq(s, 1, Min(dots) - 1)>> \o Split(SubSeq(s, Min(dots) + 1, Len(s)))

\* Path(*package.split(".")): pathlib drops the empty components
PackagePath(package) ==
    LET NonEmpty(c) == c # <<>>
    IN  SelectSeq(Split(package), NonEmpty)

\* read_text: the decoded text with universal newlines ("\r\n" and "\r" read as "\n")
read_text(content) ==
    LET kept == {i \in 1..Len(content) :
                    ~(content[i] = "\n" /\ i > 1 /\ content[i - 1] = "\r")}
        at(j) == CHOOSE i \in kept : Cardinality({k \in kept : k <= i}) = j
    IN  IF \A i \in 1..Len(content) : content[i] # "\r" THEN content
        ELSE [j \in 1..Cardinality(kept) |->
                 IF content[at(j)] = "\r" THEN "\n" ELSE content[at(j)]]

\* iter_text_files over the files fs (path -> content)
iter_text_files(fs, root) ==
    {p \in DOMAIN fs : Under(root, p) /\ Lower(Suffix(Name(p))) \in TEXT_EXTS}

\* replace_in_file that writes and reports a change whenever no rule raised
replace_in_file_always(c, rules) ==
    LET src == read_text(c)
        dst == ApplyRules(rules, 1, src)
    IN  [raised |-> dst = RE_ERROR,
         changed |-> dst # RE_ERROR,
         content |-> IF dst # RE_ERROR THEN dst ELSE c]

\* replace_in_file on a file of content c: whether the call raised, whether it
\* returned True, and the file's content after it
replace_in_file(c, rules) ==
    LET src == read_text(c)
        dst == ApplyRules(rules, 1, src)
    IN  [raised |-> dst = RE_ERROR,
         changed |-> dst # RE_ERROR /\ dst # src,
         content |-> IF dst # RE_ERROR /\ dst # src THEN dst ELSE c]

\* must_contain that never raises
must_contain_lenient(fs, p, needle) == TRUE

\* must_contain and must_not_contain return (TRUE) or raise SystemExit (FALSE)
must_contain(fs, p, needle) == Contains(read_text(fs[p]), needle)
must_not_contain(fs, p, needle) == ~Contains(read_text(fs[p]), needle)

scan_any(fs, root, needle) ==
    {f \in iter_text_files(fs, root) : Contains(read_text(fs[f]), needle)}

(***************************************************************************)
(* The state of a run of main.                                             *)
(***************************************************************************)
VARIABLES
    cfg,            \* the PatchConfig
    args_move,      \* args.move_kotlin_dir
    files,          \* the regular files of the repository: path -> content
    dirs,           \* the directories of the repository
    files0,         \* files when the run started (history)
    pc,             \* main's position
    todo,           \* the text files iter_text_files has not yielded yet
    pass,           \* the number of the Rewriter's pass over the tree
    scanned,
    changed_files,
    report_lines,
    walk,           \* move_kotlin_dir: the directories old_dir.rglob is inside of
    rm_todo,        \* move_kotlin_dir: the files rmtree has not tried yet
    moved0,         \* files when move_kotlin_dir started (history)
    check,          \* the Validator's next check
    failure,        \* the error that ended the run, "" when none
    report,         \* todd_patch_report.md as written by this run
    exit_code       \* -1 while the run goes on

vars ==
    <<cfg, args_move, files, dirs, files0, pc, todo, pass, scanned, changed_files,
      report_lines, walk, rm_todo, moved0, check, failure, report, exit_code>>

NoReport == [written |-> FALSE]
REPORT_LIST_CAP == 400

Exists(p) == p \in dirs \/ p \in DOMAIN files
rules == build_rules(cfg)
old_dir == KOTLIN_ROOT \o PackagePath(cfg.old_package)
new_dir == KOTLIN_ROOT \o PackagePath(cfg.new_package)

\* an uncaught exception or SystemExit: the process ends with a nonzero status
Raise(error) ==
    /\ pc' = "done"
    /\ failure' = error
    /\ exit_code' = 1

(***************************************************************************)
(* main, up to the end of the Rewriter's loop.                             *)
(***************************************************************************)
Start ==
    /\ pc = "start"
    /\ IF ~Exists(ANDROID_ROOT)
       THEN /\ Raise("no flutter/android")
            /\ UNCHANGED todo
       ELSE /\ pc' = "rewrite"
            /\ todo' = iter_text_files(files, ANDROID_ROOT)
            /\ UNCHANGED <<failure, exit_code>>
    /\ UNCHANGED <<cfg, args_move, files, dirs, files0, pass, scanned, changed_files,
                   report_lines, walk, rm_todo, moved0, check, report>>

\* one turn of the loop over iter_text_files, whose order is the file system's
RewriteFile ==
    /\ pc = "rewrite"
    /\ \E f \in todo :
        LET r == replace_in_file(files[f], rules)
        IN  /\ todo' = todo \ {f}
            /\ scanned' = scanned + 1
            /\ files' = [files EXCEPT ![f] = r.content]
            /\ changed_files' = IF r.changed THEN Append(changed_files, f)
                                ELSE changed_files
            /\ IF r.raised
               THEN Raise("re.error")
               ELSE UNCHANGED <<pc, failure, exit_code>>
    /\ UNCHANGED <<cfg, args_move, dirs, files0, pass, report_lines, walk, rm_todo,
                   moved0, check, report>>

RewriteDone ==
    /\ pc = "rewrite"
    /\ todo = {}
    /\ pc' = IF args_move THEN "move" ELSE "validate"
    /\ UNCHANGED <<cfg, args_move, files, dirs, files0, todo, pass, scanned,
                   changed_files, report_lines, walk, rm_todo, moved0, check, failure,
                   report, exit_code>>

(***************************************************************************)
(* move_kotlin_dir.                                                        *)
(***************************************************************************)
Children(d) == {p \in dirs \cup DOMAIN files : Len(p) = Len(d) + 1 /\ IsPrefix(d, p)}

\* Path.mkdir(parents=True, exist_ok=True) raises when a file stands in the way
MkdirRaises(d) == \E a \in Ancestors(d) : a \in DOMAIN files

\* a path below old_dir, moved below new_dir
Rebase(p) == new_dir \o SubSeq(p, Len(old_dir) + 1, Len(p))

\* a frame of old_dir.rglob("*"): the entries of dir still to yield, and, once they
\* were yielded, the subdirectories of dir still to walk into
Frame(d) == [dir |-> d, items |-> Children(d), listed |-> FALSE, subdirs |-> {}]

MoveBegin ==
    /\ pc = "move"
    /\ moved0' = files
    /\ IF ~Exists(KOTLIN_ROOT) THEN
            /\ report_lines' = Append(report_lines, <<"Kotlin root not found", KOTLIN_ROOT>>)
            /\ pc' = "validate"
            /\ UNCHANGED <<files, dirs, walk, failure, exit_code>>
       ELSE IF ~Exists(old_dir) THEN
            /\ report_lines' =
                  Append(report_lines, <<"Old kotlin dir not found (skip move)", old_dir>>)
            /\ pc' = "validate"
            /\ UNCHANGED <<files, dirs, walk, failure, exit_code>>
       ELSE IF MkdirRaises(Parent(new_dir)) THEN
            /\ Raise("FileExistsError")
            /\ UNCHANGED <<files, dirs, walk, report_lines>>
       ELSE IF Exists(new_dir) THEN
            /\ dirs' = dirs \cup Ancestors(Parent(new_dir))
            /\ report_lines' =
                  Append(report_lines, <<"New kotlin dir exists, merge files", new_dir>>)
            /\ walk' = <<Frame(old_dir)>>
            /\ pc' = "merge"
            /\ UNCHANGED <<files, failure, exit_code>>
       ELSE IF IsPrefix(old_dir, new_dir) THEN
            \* shutil.move: "Cannot move a directory into itself"
            /\ dirs' = dirs \cup Ancestors(Parent(new_dir))
            /\ Raise("shutil.Error")
            /\ UNCHANGED <<files, walk, report_lines>>
       ELSE
            \* shutil.move renames old_dir
            /\ files' = [p \in {IF IsPrefix(old_dir, q) THEN Rebase(q) ELSE q :
                                   q \in DOMAIN files} |->
                            IF IsPrefix(new_dir, p)
                            THEN files[old_dir \o SubSeq(p, Len(new_dir) + 1, Len(p))]
                            ELSE files[p]]
            /\ dirs' = {IF IsPrefix(old_dir, q) THEN Rebase(q) ELSE q :
                           q \in dirs \cup Ancestors(Parent(new_dir))}
            /\ report_lines' = Append(report_lines, <<"Moved kotlin dir", old_dir, new_dir>>)
            /\ pc' = "validate"
            /\ UNCHANGED <<walk, failure, exit_code>>
    /\ UNCHANGED <<cfg, args_move, files0, todo, pass, scanned, changed_files, rm_todo,
                   check, report>>

\* shutil.copy2(item, dst) after dst.parent.mkdir: the file it writes; a directory at
\* dst makes it write below that directory, under the name of item
CopyTarget(item) ==
    IF Rebase(item) \in dirs THEN Rebase(item) \o <<Name(item)>> ELSE Rebase(item)

\* one entry yielded by old_dir.rglob("*") and the loop's body for it
MergeItem ==
    /\ pc = "merge"
    /\ walk # <<>>
    /\ \E item \in walk[1].items :
        /\ walk' = [walk EXCEPT ![1].items = @ \ {item}]
        /\ IF item \notin DOMAIN files THEN
                UNCHANGED <<files, dirs, pc, failure, exit_code>>
           ELSE IF MkdirRaises(Parent(Rebase(item))) THEN
                /\ Raise("FileExistsError")
                /\ UNCHANGED <<files, dirs>>
           ELSE
                /\ dirs' = dirs \cup Ancestors(Parent(Rebase(item)))
                /\ \/ /\ CopyTarget(item) = item
                      /\ Raise("SameFileError")
                      /\ UNCHANGED files
                   \/ /\ CopyTarget(item) # item
                      /\ CopyTarget(item) \in dirs
                      /\ Raise("IsADirectoryError")
                      /\ UNCHANGED files
                   \/ /\ CopyTarget(item) # item
                      /\ Len(CopyTarget(item)) > MaxDepth
                      /\ Raise("OSError: File name too long")
                      /\ UNCHANGED files
                   \/ \* the copy fails: an I/O error of the file system
                      /\ CopyTarget(item) # item
                      /\ Raise("OSError")
                      /\ UNCHANGED files
                   \/ /\ CopyTarget(item) # item
                      /\ CopyTarget(item) \notin dirs
                      /\ Len(CopyTarget(item)) <= MaxDepth
                      /\ files' = [p \in DOMAIN files \cup {CopyTarget(item)} |->
                                     IF p = CopyTarget(item) THEN files[item] ELSE files[p]]
                      /\ UNCHANGED <<pc, failure, exit_code>>
    /\ UNCHANGED <<cfg, args_move, files0, todo, pass, scanned, changed_files,
                   report_lines, rm_todo, moved0, check, report>>

\* rglob has yielded the entries of a directory and lists it again for its
\* subdirectories
MergeList ==
    /\ pc = "merge"
    /\ walk # <<>>
    /\ walk[1].items = {}
    /\ ~walk[1].listed
    /\ walk' = [walk EXCEPT ![1].listed = TRUE,
                            ![1].subdirs = Children(walk[1].dir) \cap dirs]
    /\ UNCHANGED <<cfg, args_move, files, dirs, files0, pc, todo, pass, scanned,
                   changed_files, report_lines, rm_todo, moved0, check, failure, report,
                   exit_code>>

MergeEnter ==
    /\ pc = "merge"
    /\ walk # <<>>
    /\ walk[1].items = {}
    /\ walk[1].listed
    /\ \E d \in walk[1].subdirs :
        walk' = <<Frame(d)>> \o [walk EXCEPT ![1].subdirs = @ \ {d}]
    /\ UNCHANGED <<cfg, args_move, files, dirs, files0, pc, todo, pass, scanned,
                   changed_files, report_lines, rm_todo, moved0, check, failure, report,
                   exit_code>>

MergeLeave ==
    /\ pc = "merge"
    /\ walk # <<>>
    /\ walk[1].items = {}
    /\ walk[1].listed
    /\ walk[1].subdirs = {}
    /\ walk' = Tail(walk)
    /\ UNCHANGED <<cfg, args_move, files, dirs, files0, pc, todo, pass, scanned,
                   changed_files, report_lines, rm_todo, moved0, check, failure, report,
                   exit_code>>

\* the loop is over: shutil.rmtree(old_dir, ignore_errors=True) starts
RmtreeBegin ==
    /\ pc = "merge"
    /\ walk = <<>>
    /\ pc' = "rmtree"
    /\ rm_todo' = {p \in DOMAIN files : IsPrefix(old_dir, p)}
    /\ UNCHANGED <<cfg, args_move, files, dirs, files0, todo, pass, scanned,
                   changed_files, report_lines, walk, moved0, check, failure, report,
                   exit_code>>

\* rmtree unlinks a file, or fails to and goes on (ignore_errors)
RmtreeUnlink ==
    /\ pc = "rmtree"
    /\ \E f \in rm_todo :
        /\ rm_todo' = rm_todo \ {f}
        /\ \/ files' = [p \in DOMAIN files \ {f} |-> files[p]]
           \/ UNCHANGED files
    /\ UNCHANGED <<cfg, args_move, dirs, files0, pc, todo, pass, scanned, changed_files,
                   report_lines, walk, moved0, check, failure, report, exit_code>>

\* rmtree removes the directories it has emptied and returns
RmtreeDone ==
    /\ pc = "rmtree"
    /\ rm_todo = {}
    /\ dirs' = {d \in dirs :
                   ~IsPrefix(old_dir, d) \/ \E p \in DOMAIN files : IsPrefix(d, p)}
    /\ report_lines' = Append(report_lines, <<"Deleted old kotlin dir", old_dir>>)
    /\ pc' = "validate"
    /\ UNCHANGED <<cfg, args_move, files, files0, todo, pass, scanned, changed_files,
                   walk, rm_todo, moved0, check, failure, report, exit_code>>

(***************************************************************************)
(* The Validator and the Reporter.                                         *)
(***************************************************************************)
\* the needles of the checks
NeedleApplicationId(package) == APPLICATION_ID_Q \o package \o QUOTE
NeedlePackage(package) == PACKAGE_Q \o package \o QUOTE
NeedleService(service) == ANDROID_NAME_DOT \o service \o QUOTE
NeedleScheme(scheme) == ANDROID_SCHEME_Q \o scheme \o QUOTE
NeedleSo(scheme) == LIB \o scheme \o DOT_SO
NeedleLoadLibrary(scheme) == LOAD_LIBRARY_OPEN \o scheme \o QUOTE_PAREN

\* a check on file p, skipped when p does not exist: "" when it passes, else the error
FileCheck(p, passes, error) ==
    IF ~Exists(p) THEN ""
    ELSE IF p \in dirs THEN "IsADirectoryError"
    ELSE IF passes THEN ""
    ELSE error

\* the checks of main in their order; each gives "" or the error it raises
CheckOrder ==
    <<"applicationId", "old applicationId", "manifest package", "manifest service",
      "manifest scheme", "old package", "native so", "loadLibrary">>

CheckResult(k) ==
    CASE k = 1 ->
            FileCheck(GRADLE,
                      must_contain(files, GRADLE, NeedleApplicationId(cfg.new_package)),
                      CheckOrder[1])
      [] k = 2 ->
            FileCheck(GRADLE,
                      must_not_contain(files, GRADLE, NeedleApplicationId(cfg.old_package)),
                      CheckOrder[2])
      [] k = 3 ->
            FileCheck(MANIFEST,
                      must_contain(files, MANIFEST, NeedlePackage(cfg.new_package)),
                      CheckOrder[3])
      [] k = 4 ->
            FileCheck(MANIFEST,
                      must_contain(files, MANIFEST, NeedleService(cfg.new_service)),
                      CheckOrder[4])
      [] k = 5 ->
            FileCheck(MANIFEST,
                      must_contain(files, MANIFEST, NeedleScheme(cfg.new_scheme)),
                      CheckOrder[5])
      [] k = 6 ->
            IF scan_any(files, ANDROID_ROOT, cfg.old_package) # {}
            THEN CheckOrder[6] ELSE ""
      [] k = 7 ->
            IF \/ scan_any(files, ANDROID_ROOT, NeedleSo(cfg.new_scheme)) # {}
               \/ scan_any(files, ANDROID_ROOT, LIBTODDDESK_SO) # {}
            THEN CheckOrder[7] ELSE ""
      [] k = 8 ->
            IF \/ scan_any(files, ANDROID_ROOT, NeedleLoadLibrary(cfg.new_scheme)) # {}
               \/ scan_any(files, ANDROID_ROOT, NeedleLoadLibrary(TODDDESK)) # {}
            THEN CheckOrder[8] ELSE ""

Validate ==
    /\ pc = "validate"
    /\ IF CheckResult(check) # "" THEN
            /\ Raise(CheckResult(check))
            /\ UNCHANGED check
       ELSE IF check = Len(CheckOrder) THEN
            /\ pc' = "report"
            /\ UNCHANGED <<check, failure, exit_code>>
       ELSE
            /\ check' = check + 1
            /\ UNCHANGED <<pc, failure, exit_code>>
    /\ UNCHANGED <<cfg, args_move, files, dirs, files0, todo, pass, scanned,
                   changed_files, report_lines, walk, rm_todo, moved0, report>>

\* write_report, and main's return
WriteReport ==
    /\ pc = "report"
    /\ report' =
          [written |-> TRUE,
           targets |-> cfg,
           changed_files_count |-> Len(changed_files),
           listed |-> SubSeq(changed_files, 1,
                             IF Len(changed_files) > REPORT_LIST_CAP
                             THEN REPORT_LIST_CAP ELSE Len(changed_files)),
           more |-> IF Len(changed_files) > REPORT_LIST_CAP
                    THEN Len(changed_files) - REPORT_LIST_CAP ELSE 0,
           notes |-> report_lines]
    /\ pc' = "done"
    /\ exit_code' = 0
    /\ UNCHANGED <<cfg, args_move, files, dirs, files0, todo, pass, scanned,
                   changed_files, report_lines, walk, rm_todo, moved0, check, failure>>

\* the Rewriter runs again over the tree it has rewritten
SecondPass ==
    /\ pc = "rewrite"
    /\ todo = {}
    /\ pass = 1
    /\ pass' = 2
    /\ todo' = iter_text_files(files, ANDROID_ROOT)
    /\ scanned' = 0
    /\ changed_files' = <<>>
    /\ UNCHANGED <<cfg, args_move, files, dirs, files0, pc, report_lines, walk,
                   rm_todo, moved0, check, failure, report, exit_code>>

(***************************************************************************)
(* Trees and configurations a run starts from.                             *)
(***************************************************************************)
\* the concatenations of at most n texts of the set F
RECURSIVE Concats(_, _)
Concats(F, n) ==
    IF n = 0 THEN {<<>>}
    ELSE Concats(F, n - 1) \cup {s \o f : s \in Concats(F, n - 1), f \in F}

\* the directories a tree of the files fs and the further directories ds has
TreeDirs(fs, ds) ==
    UNION {Ancestors(Parent(p)) : p \in DOMAIN fs} \cup UNION {Ancestors(d) : d \in ds}

\* a tree given as a set of <<path, content>> pairs
Tree(pairs) ==
    [p \in {x[1] : x \in pairs} |-> (CHOOSE x \in pairs : x[1] = p)[2]]

InitRun(c, mv, fs, ds, at) ==
    /\ cfg = c
    /\ args_move = mv
    /\ files = fs
    /\ dirs = TreeDirs(fs, ds)
    /\ files0 = fs
    /\ pc = at
    /\ todo = IF at = "rewrite" THEN iter_text_files(fs, ANDROID_ROOT) ELSE {}
    /\ pass = 1
    /\ scanned = 0
    /\ changed_files = <<>>
    /\ report_lines = <<>>
    /\ walk = <<>>
    /\ rm_todo = {}
    /\ moved0 = fs
    /\ check = 1
    /\ failure = ""
    /\ report = NoReport
    /\ exit_code = -1

KeepSchemeConfig == [DefaultConfig EXCEPT !.new_scheme = DEF_OLD_SCHEME]
SamePackageConfig == [DefaultConfig EXCEPT !.new_package = DEF_OLD_PACKAGE]
PackageConfig(old, new) == [DefaultConfig EXCEPT !.old_package = old, !.new_package = new]

MAIN_KT == KOTLIN_ROOT \o PackagePath(DEF_OLD_PACKAGE) \o <<N_MAIN_ACTIVITY_KT>>
GOOGLE_SERVICES == <<N_FLUTTER, N_ANDROID, N_APP, N_GOOGLE_SERVICES_JSON>>

\* build.gradle, AndroidManifest.xml and MainActivity.kt of the end-to-end scenario
ScenarioGradle == NeedleApplicationId(DEF_OLD_PACKAGE) \o NL
ScenarioManifest ==
    NeedlePackage(DEF_OLD_PACKAGE) \o NL \o NeedleService(DEF_OLD_SERVICE) \o NL
        \o NeedleScheme(DEF_OLD_SCHEME) \o NL
ScenarioKotlin == KT_PACKAGE \o DEF_OLD_PACKAGE \o NL \o LOAD_LIBRARY_RUSTDESK \o NL

GradleTexts ==
    {ScenarioGradle, NeedleApplicationId(PKG_OTHER) \o NL}
ManifestTexts ==
    {ScenarioManifest,
     NeedlePackage(PKG_OTHER) \o NL \o NeedleService(DEF_OLD_SERVICE) \o NL
        \o NeedleScheme(DEF_OLD_SCHEME) \o NL,
     NeedlePackage(DEF_OLD_PACKAGE) \o NL \o NeedleScheme(DEF_OLD_SCHEME) \o NL,
     NeedlePackage(DEF_OLD_PACKAGE) \o NL \o NeedleService(DEF_OLD_SERVICE) \o NL}
KotlinFrags ==
    {LIBRUSTDESK_SO \o NL, LIBTODDDESK_SO \o NL, NeedleLoadLibrary(TODDDESK) \o NL,
     DEF_OLD_SERVICE \o NL}
JsonTexts == {DEF_OLD_PACKAGE, DEF_NEW_PACKAGE}

\* the Validator's cases: each of build.gradle, AndroidManifest.xml and
\* google-services.json absent or present
ValidatorTrees ==
    {Tree({<<MAIN_KT, ScenarioKotlin>>} \cup g \cup m \cup j) :
        g \in {{}} \cup {{<<GRADLE, t>>} : t \in GradleTexts},
        m \in {{}} \cup {{<<MANIFEST, t>>} : t \in ManifestTexts},
        j \in {{}} \cup {{<<GOOGLE_SERVICES, t>>} : t \in JsonTexts}}

InitValidator ==
    \E c \in {DefaultConfig, KeepSchemeConfig, SamePackageConfig} :
    \E fs \in ValidatorTrees :
        InitRun(c, FALSE, fs, {}, "start")

\* the end-to-end scenario, with further lines in MainActivity.kt
ScenarioTrees ==
    {Tree({<<GRADLE, ScenarioGradle>>, <<MANIFEST, ScenarioManifest>>,
           <<MAIN_KT, ScenarioKotlin \o k>>}) :
        k \in Concats(KotlinFrags, MaxFrags)}

InitScenario ==
    \E c \in {DefaultConfig, KeepSchemeConfig} :
    \E mv \in BOOLEAN :
    \E fs \in ScenarioTrees :
        InitRun(c, mv, fs, {}, "start")

\* the Directory Migrator's cases: the old package's directory with one or two
\* files, and the new package's directory absent, empty, holding a file, holding a
\* directory where a file is to go, or holding a file where a directory is to go
PackagePairs ==
    {<<PKG_COM_A, PKG_ORG_B>>, <<PKG_COM_A, PKG_COM_A_B>>, <<PKG_COM_A_B, PKG_COM_A>>,
     <<PKG_COM_A, PKG_COM_A>>}

MigratorTrees(old, new) ==
    LET od == KOTLIN_ROOT \o PackagePath(old)
        nd == KOTLIN_ROOT \o PackagePath(new)
        text == KT_PACKAGE \o old \o NL
        olds == {{<<od \o <<N_F_KT>>, text>>},
                 {<<od \o <<N_F_KT>>, text>>, <<od \o <<N_S, N_G_KT>>, text>>}}
        news == {<<{}, {}>>,
                 <<{}, {nd}>>,
                 <<{<<nd \o <<N_G_KT>>, text>>}, {}>>,
                 <<{}, {nd \o <<N_F_KT>>}>>,
                 <<{<<nd \o <<N_S>>, text>>}, {}>>}
    IN  {<<Tree(o \cup n[1]), n[2]>> : o \in olds, n \in news}
          \cup {<<Tree({<<GRADLE, ScenarioGradle>>}), {}>>,
                <<Tree({<<GRADLE, ScenarioGradle>>}), {KOTLIN_ROOT}>>}

InitMigrator ==
    \E pair \in PackagePairs :
    \E t \in MigratorTrees(pair[1], pair[2]) :
        InitRun(PackageConfig(pair[1], pair[2]), TRUE, t[1], t[2], "start")

MainNext ==
    \/ Start
    \/ RewriteFile
    \/ RewriteDone
    \/ MoveBegin
    \/ MergeItem
    \/ MergeList
    \/ MergeEnter
    \/ MergeLeave
    \/ RmtreeBegin
    \/ RmtreeUnlink
    \/ RmtreeDone
    \/ Validate
    \/ WriteReport

Init == InitValidator \/ InitScenario \/ InitMigrator

Spec == Init /\ [][MainNext]_vars

(***************************************************************************)
(* Properties of a run of main.                                            *)
(***************************************************************************)
\* the number of places at which needle stands in text
Count(text, needle) == Cardinality({i \in 1..Len(text) : LitAt(text, needle, i)})

Finished == pc = "done"
Succeeded == pc = "done" /\ exit_code = 0 /\ report.written

\* the files of the flutter/android subtree
AndroidFiles == {p \in DOMAIN files : Under(ANDROID_ROOT, p)}

\* a residue the Validator is to refuse
Residue(text) ==
    \/ Contains(text, cfg.old_package)
    \/ Contains(text, NeedleSo(cfg.new_scheme))
    \/ Contains(text, LIBTODDDESK_SO)
    \/ Contains(text, NeedleLoadLibrary(cfg.new_scheme))
    \/ Contains(text, NeedleLoadLibrary(TODDDESK))

\* C1: a run finishes with exit status 0 and the report written only if no file of
\* the flutter/android subtree holds the old package, lib<new_scheme>.so,
\* libtodddesk.so, System.loadLibrary("<new_scheme>") or
\* System.loadLibrary("todddesk"); and a run that ends with a file still holding the
\* old package has a nonzero exit status and has written no report.
C1_ResidueGate ==
    /\ (Finished /\ exit_code = 0) => \A p \in AndroidFiles : ~Residue(files[p])
    /\ (Finished /\ \E p \in AndroidFiles : Contains(files[p], cfg.old_package))
          => (exit_code # 0 /\ ~report.written)

\* the five checks on build.gradle and AndroidManifest.xml, stated on the files
GradleOk ==
    /\ Contains(files[GRADLE], NeedleApplicationId(cfg.new_package))
    /\ ~Contains(files[GRADLE], NeedleApplicationId(cfg.old_package))
ManifestOk ==
    /\ Contains(files[MANIFEST], NeedlePackage(cfg.new_package))
    /\ Contains(files[MANIFEST], NeedleService(cfg.new_service))
    /\ Contains(files[MANIFEST], NeedleScheme(cfg.new_scheme))

Violated(k) ==
    CASE k = 1 -> GRADLE \in DOMAIN files
                    /\ ~Contains(files[GRADLE], NeedleApplicationId(cfg.new_package))
      [] k = 2 -> GRADLE \in DOMAIN files
                    /\ Contains(files[GRADLE], NeedleApplicationId(cfg.old_package))
      [] k = 3 -> MANIFEST \in DOMAIN files
                    /\ ~Contains(files[MANIFEST], NeedlePackage(cfg.new_package))
      [] k = 4 -> MANIFEST \in DOMAIN files
                    /\ ~Contains(files[MANIFEST], NeedleService(cfg.new_service))
      [] k = 5 -> MANIFEST \in DOMAIN files
                    /\ ~Contains(files[MANIFEST], NeedleScheme(cfg.new_scheme))

ValidatorReached ==
    Finished /\ failure \notin {"no flutter/android", "re.error", "FileExistsError",
                                "shutil.Error", "SameFileError", "IsADirectoryError",
                                "OSError: File name too long", "OSError"}

\* C8: a run succeeds only if build.gradle, when it exists, holds
\* applicationId "<new_package>" and not applicationId "<old_package>", and
\* AndroidManifest.xml, when it exists, holds package="<new_package>",
\* android:name=".<new_service>" and android:scheme="<new_scheme>"; the first of
\* these checks that is violated ends the run with a nonzero exit status and no
\* report; a check on an absent file never fails.
C8_PostConditions ==
    /\ (Succeeded /\ GRADLE \in DOMAIN files) => GradleOk
    /\ (Succeeded /\ MANIFEST \in DOMAIN files) => ManifestOk
    /\ ValidatorReached =>
          \A k \in 1..5 :
              /\ (Violated(k) /\ \A j \in 1..(k - 1) : ~Violated(j))
                    => (failure = CheckOrder[k] /\ exit_code = 1 /\ ~report.written)
              /\ failure = CheckOrder[k] => Violated(k)

\* the manifest lacks the scheme attribute after the checks before it have passed
C8_Witness ==
    /\ Finished
    /\ failure = CheckOrder[5]
    /\ GRADLE \in DOMAIN files
    /\ GradleOk
    /\ exit_code = 1
    /\ ~report.written

\* the tree of the end-to-end scenario
ScenarioTree(fs) ==
    /\ {GRADLE, MANIFEST, MAIN_KT} \subseteq DOMAIN fs
    /\ Contains(fs[GRADLE], NeedleApplicationId(DEF_OLD_PACKAGE))
    /\ Contains(fs[MANIFEST], NeedlePackage(DEF_OLD_PACKAGE))
    /\ Contains(fs[MANIFEST], NeedleService(DEF_OLD_SERVICE))
    /\ Contains(fs[MANIFEST], NeedleScheme(DEF_OLD_SCHEME))
    /\ Contains(fs[MAIN_KT], LOAD_LIBRARY_RUSTDESK)

\* MainActivity.kt where the run has left it
MainKt == IF MAIN_KT \in DOMAIN files THEN MAIN_KT
          ELSE KOTLIN_ROOT \o PackagePath(cfg.new_package) \o <<N_MAIN_ACTIVITY_KT>>

\* C4: with the default configuration, a run on a tree whose build.gradle holds
\* applicationId "com.carriez.flutter_hbb", whose manifest holds
\* package="com.carriez.flutter_hbb", android:name=".InputService" and
\* android:scheme="rustdesk" and whose code holds System.loadLibrary("rustdesk")
\* ends with the new package in both, the service and scheme attributes renamed,
\* the load call as it was, every check passed and the report written.
C4_EndToEnd ==
    (Finished /\ cfg = DefaultConfig /\ ScenarioTree(files0)) =>
        /\ Succeeded
        /\ failure = ""
        /\ GradleOk
        /\ ManifestOk
        /\ ~Contains(files[MANIFEST], NeedlePackage(DEF_OLD_PACKAGE))
        /\ ~Contains(files[MANIFEST], NeedleService(DEF_OLD_SERVICE))
        /\ ~Contains(files[MANIFEST], NeedleScheme(DEF_OLD_SCHEME))
        /\ MainKt \in DOMAIN files
        /\ Count(files[MainKt], LOAD_LIBRARY_RUSTDESK)
              >= Count(files0[MAIN_KT], LOAD_LIBRARY_RUSTDESK)
        /\ \A p \in AndroidFiles : p \in iter_text_files(files, ANDROID_ROOT)
              => ~Residue(files[p])

C4_Witness ==
    /\ Succeeded
    /\ cfg = DefaultConfig
    /\ ScenarioTree(files0)
    /\ args_move
    /\ Contains(files[MainKt], LOAD_LIBRARY_RUSTDESK)
    /\ Contains(files[GRADLE], NeedleApplicationId(DEF_NEW_PACKAGE))

\* the files below the old package's directory when move_kotlin_dir started
SourceFiles == {p \in DOMAIN moved0 : Under(old_dir, p)}
MoveCompleted ==
    /\ pc \in {"validate", "report", "done"}
    /\ report_lines # <<>>
    /\ report_lines[Len(report_lines)][1] \in {"Moved kotlin dir", "Deleted old kotlin dir"}

\* C9: in every state during and after move_kotlin_dir each file that was below
\* the old package's directory is at its path or at the same relative path below
\* the new package's directory; the deletion starts only when every source file
\* has been copied; and when the step has completed every source file is below
\* the destination and the source directory is gone.
C9_NoFileLost ==
    /\ \A p \in SourceFiles : p \in DOMAIN files \/ Rebase(p) \in DOMAIN files
    /\ pc = "rmtree" => \A p \in SourceFiles : Rebase(p) \in DOMAIN files
    /\ MoveCompleted =>
          /\ \A p \in SourceFiles : Rebase(p) \in DOMAIN files
          /\ old_dir # new_dir => ~\E p \in DOMAIN files : Under(old_dir, p)

(***************************************************************************)
(* The Rewriter alone: its loop over a tree of one text file, then the     *)
(* same loop again over the tree it has left.                              *)
(***************************************************************************)
STRINGS_XML == <<N_FLUTTER, N_ANDROID, N_APP, N_STRINGS_XML>>

InitRewriter(c, text) == InitRun(c, FALSE, Tree({<<STRINGS_XML, text>>}), {}, "rewrite")

RewriterNext ==
    \/ RewriteFile
    \/ SecondPass

\* the file before the first pass, and now
Src == read_text(files0[STRINGS_XML])
Out == read_text(files[STRINGS_XML])

\* replace_in_file has been called on the file in the first pass
FirstPassRan == pass = 1 /\ scanned = 1
\* ... and has returned
FirstPassDone == FirstPassRan /\ failure = ""
SecondPassDone == pass = 2 /\ scanned = 1 /\ failure = ""

OPEN_APP_NAME == STRING_OPEN \o SP \o NAME_APP_NAME
OPEN_ACCESSIBILITY == STRING_OPEN \o SP \o NAME_ACCESSIBILITY
ElementNames == {NAME_ACCESSIBILITY, NAME_APP_NAME}

\* index i of text lies between the opening tag of one of the two <string> elements
\* and the first closing tag that follows it
InsideElement(text, i) ==
    \E name \in ElementNames : \E s \in 1..i :
        LET e == TagEnd(text, name, s)
        IN  e > 0 /\ e <= i /\ IndexFrom(text, STRING_CLOSE, e) > i

\* the number of places outside these elements at which needle stands in text
CountOutside(text, needle) ==
    Cardinality({i \in 1..Len(text) : LitAt(text, needle, i) /\ ~InsideElement(text, i)})

(***************************************************************************)
(* The native library's names.                                             *)
(***************************************************************************)
AppNameRustdeskConfig == [DefaultConfig EXCEPT !.old_app_name = RUSTDESK]
NativeConfigs == {DefaultConfig, KeepSchemeConfig, AppNameRustdeskConfig}
NativeFrags ==
    {LOAD_LIBRARY_RUSTDESK \o NL, LIBRUSTDESK_SO \o NL, LIBTODDDESK_SO \o NL,
     NeedleLoadLibrary(TODDDESK) \o NL, DEF_OLD_APP_NAME \o NL}

InitNative ==
    \E c \in NativeConfigs : \E t \in Concats(NativeFrags, MaxFrags) : InitRewriter(c, t)

SpecNative == InitNative /\ [][RewriterNext]_vars

\* C2: for every configuration and every content, each System.loadLibrary("rustdesk")
\* and each librustdesk.so of the input is still there, as that text, after the
\* rules of build_rules have been applied.
C2_NativeProtected ==
    FirstPassRan =>
        /\ failure = ""
        /\ Count(Out, LOAD_LIBRARY_RUSTDESK) >= Count(Src, LOAD_LIBRARY_RUSTDESK)
        /\ Count(Out, LIBRUSTDESK_SO) >= Count(Src, LIBRUSTDESK_SO)

(***************************************************************************)
(* Two passes.                                                             *)
(***************************************************************************)
AppNameGrowsConfig == [DefaultConfig EXCEPT !.new_app_name = DEF_OLD_APP_NAME \o T_2]
LOG_TAG == Q_INPUT \o SP \o SERVICE_Q
LogTag == PatWs(Q_INPUT, SERVICE_Q)

IdempotentFrags ==
    {LOG_TAG, Tail(LOG_TAG), DEF_OLD_APP_NAME \o NL, DEF_OLD_PACKAGE \o NL,
     LIBTODDDESK_SO \o NL, OPEN_APP_NAME \o DEF_OLD_APP_NAME \o STRING_CLOSE}

InitIdempotent ==
    \E c \in {DefaultConfig, AppNameGrowsConfig} :
    \E t \in Concats(IdempotentFrags, MaxFrags) :
        InitRewriter(c, t)

SpecIdempotent == InitIdempotent /\ [][RewriterNext]_vars

\* two matches of "input\s+service" of which the second starts at the quotation
\* mark that ends the first
SharedQuote(text) ==
    \E i \in 1..Len(text) :
        /\ MatchEnd(LogTag, text, i) > 0
        /\ MatchEnd(LogTag, text, MatchEnd(LogTag, text, i) - 1) > 0

\* C3 as stated: for any tree and any configuration the second pass changes no
\* file and records zero changed files.
C3_Idempotent == SecondPassDone => changed_files = <<>>

\* C3, amended: with the default configuration, and no file in which two log tags
\* "input service" share a quotation mark, the second pass changes no file and
\* records zero changed files.
C3_IdempotentDefault ==
    (SecondPassDone /\ cfg = DefaultConfig /\ ~SharedQuote(Src))
        => (changed_files = <<>> /\ Out = ApplyRules(rules, 1, Src))

\* the first pass has rewritten the file and the second has left it alone
C3_Witness ==
    /\ SecondPassDone
    /\ cfg = DefaultConfig
    /\ ~SharedQuote(Src)
    /\ Contains(Src, LOG_TAG)
    /\ Out # Src
    /\ changed_files = <<>>

(***************************************************************************)
(* The package.                                                            *)
(***************************************************************************)
PackageFrags ==
    {DEF_OLD_PACKAGE \o NL, KT_PACKAGE \o DEF_OLD_PACKAGE, NeedleApplicationId(DEF_OLD_PACKAGE),
     OPEN_APP_NAME \o DEF_OLD_PACKAGE,
     OPEN_ACCESSIBILITY \o NL \o DEF_OLD_PACKAGE \o NL \o STRING_CLOSE, STRING_CLOSE, DEF_NEW_PACKAGE \o SP}

InitPackage ==
    \E c \in {DefaultConfig, KeepSchemeConfig} :
    \E t \in Concats(PackageFrags, MaxFrags) :
        InitRewriter(c, t)

SpecPackage == InitPackage /\ [][RewriterNext]_vars

ServiceFrags ==
    {DEF_OLD_SERVICE, T_MY \o DEF_OLD_SERVICE, ANDROID_NAME_DOT \o DEF_OLD_SERVICE,
     T_IMPL, T_2, T_UNDERSCORE_X, SP, QUOTE}

InitService ==
    \E c \in {DefaultConfig, KeepSchemeConfig} :
    \E t \in Concats(ServiceFrags, MaxFrags) :
        InitRewriter(c, t)

SpecService == InitService /\ [][RewriterNext]_vars

\* the identifiers of a text, in their order: the maximal runs of word characters
IdentStarts(text) ==
    {i \in 1..Len(text) : text[i] \in WordChars /\ (i = 1 \/ text[i - 1] \notin WordChars)}
IdentAt(text, i) ==
    SubSeq(text, i, Min({j \in i..Len(text) : text[j] \notin WordChars} \cup {Len(text) + 1}) - 1)
Identifiers(text) ==
    [k \in 1..Cardinality(IdentStarts(text)) |->
        IdentAt(text, CHOOSE i \in IdentStarts(text) :
                          Cardinality({j \in IdentStarts(text) : j <= i}) = k)]
\* the text with every word character struck out
Separators(text) == SelectSeq(text, LAMBDA ch : ch \notin WordChars)

\* C6: the service rules replace the old service name only where it is a whole
\* identifier: the identifiers of the output are those of the input, in order, with
\* exactly those equal to the old service name replaced by the new one; a longer
\* identifier that holds the old name as a prefix, suffix or infix stays as it was,
\* and so does everything between the identifiers.
C6_WholeIdentifier ==
    FirstPassDone =>
        /\ Identifiers(Out) =
              [k \in 1..Len(Identifiers(Src)) |->
                  IF Identifiers(Src)[k] = cfg.old_service THEN cfg.new_service
                  ELSE Identifiers(Src)[k]]
        /\ Separators(Out) = Separators(Src)

C6_Witness ==
    /\ FirstPassDone
    /\ Src = ANDROID_NAME_DOT \o DEF_OLD_SERVICE \o T_IMPL
    /\ Out = Src

(***************************************************************************)
(* The forced rewrite of the two <string> elements.                        *)
(***************************************************************************)
AppNameDigitConfig == [DefaultConfig EXCEPT !.new_app_name = APP_NAME_1DESK]
DescDigitsConfig == [DefaultConfig EXCEPT !.accessibility_desc = DESC_24_7]

MarkupFrags ==
    {OPEN_APP_NAME, OPEN_APP_NAME \o DEF_OLD_APP_NAME,
     OPEN_ACCESSIBILITY \o T_X \o NL \o T_X, STRING_CLOSE, T_X \o NL}

InitMarkup ==
    \E c \in {DefaultConfig, AppNameDigitConfig, DescDigitsConfig} :
    \E t \in Concats(MarkupFrags, MaxFrags) :
        InitRewriter(c, t)

SpecMarkup == InitMarkup /\ [][RewriterNext]_vars

\* every <string name> element of text with the given name holds the value
ElementsHold(text, name, value) ==
    \A s \in 1..Len(text) :
        LET e == TagEnd(text, name, s)
            c == IF e = 0 THEN 0 ELSE IndexFrom(text, STRING_CLOSE, e)
        IN  c > 0 => SubSeq(text, e, c - 1) = value

\* the number of opening tags with the given name that a closing tag follows
Elements(text, name) ==
    Cardinality({s \in 1..Len(text) :
                    /\ TagEnd(text, name, s) > 0
                    /\ IndexFrom(text, STRING_CLOSE, TagEnd(text, name, s)) > 0})

\* C7: no rule fails, and after the rewrite each accessibility_service_description
\* element holds exactly the configured description and each app_name element
\* exactly the configured new app name, whatever they held, between tags that are
\* as they were.
C7_ForcedRewrite ==
    FirstPassRan =>
        /\ failure = ""
        /\ ElementsHold(Out, NAME_ACCESSIBILITY, cfg.accessibility_desc)
        /\ ElementsHold(Out, NAME_APP_NAME, cfg.new_app_name)
        /\ (Elements(Src, NAME_APP_NAME) > 0 /\ Elements(Src, NAME_ACCESSIBILITY) = 0)
              => Elements(Out, NAME_APP_NAME) > 0

(***************************************************************************)
(* The scheme.                                                             *)
(***************************************************************************)
SchemeFrags ==
    {NeedleScheme(DEF_OLD_SCHEME), DEF_OLD_SCHEME \o COLON_SLASH_SLASH, LIBRUSTDESK_SO,
     LOAD_LIBRARY_RUSTDESK, DEF_OLD_SCHEME \o T_UNDERSCORE_X, T_MY \o DEF_OLD_SCHEME \o SP,
     OPEN_APP_NAME \o DEF_OLD_SCHEME, STRING_CLOSE, NeedleLoadLibrary(TODDDESK)}

InitScheme ==
    \E t \in Concats(SchemeFrags, MaxFrags) : InitRewriter(DefaultConfig, t)

SpecScheme == InitScheme /\ [][RewriterNext]_vars

\* the places at which the scheme rules apply: the attribute and the URI prefix
ScopedOutside(text, scheme) ==
    CountOutside(text, NeedleScheme(scheme)) + CountOutside(text, scheme \o COLON_SLASH_SLASH)
Scoped(text, scheme) ==
    Count(text, NeedleScheme(scheme)) + Count(text, scheme \o COLON_SLASH_SLASH)
\* the places at which the native rules put the canonical name back
RestoredOutside(text) ==
    CountOutside(text, NeedleLoadLibrary(cfg.new_scheme)) + CountOutside(text, NeedleSo(cfg.new_scheme))

\* C10 as stated: the old scheme becomes the new one only in android:scheme="<old>"
\* and before :// ; every other occurrence of the old scheme is left as it was.
C10_ScopedOnly ==
    FirstPassDone =>
        /\ Count(Out, cfg.old_scheme) >= Count(Src, cfg.old_scheme) - Scoped(Src, cfg.old_scheme)
        /\ Count(Out, cfg.new_scheme) <= Count(Src, cfg.new_scheme) + Scoped(Src, cfg.old_scheme)

\* C10, amended: with the default configuration, outside the two <string>
\* elements that are rewritten whole the old scheme becomes the new one exactly in
\* android:scheme="<old>" and before :// ; every other occurrence of the old
\* scheme outside these elements is left as it was.
C10_ScopedOutsideElements ==
    FirstPassDone =>
        /\ Count(Out, cfg.old_scheme) =
              CountOutside(Src, cfg.old_scheme) - ScopedOutside(Src, cfg.old_scheme)
                 + RestoredOutside(Src)
        /\ Count(Out, cfg.new_scheme) =
              CountOutside(Src, cfg.new_scheme) + ScopedOutside(Src, cfg.old_scheme)
                 - RestoredOutside(Src)
        /\ Count(Out, LIBRUSTDESK_SO) >= CountOutside(Src, LIBRUSTDESK_SO)
        /\ Count(Out, LOAD_LIBRARY_RUSTDESK) >= CountOutside(Src, LOAD_LIBRARY_RUSTDESK)

C10_Witness ==
    /\ FirstPassDone
    /\ Src = LIBRUSTDESK_SO \o DEF_OLD_SCHEME \o COLON_SLASH_SLASH
    /\ Out = LIBRUSTDESK_SO \o DEF_NEW_SCHEME \o COLON_SLASH_SLASH
====
